---- MODULE Spec2Model ----
(***************************************************************************)
(* Model of scripts/visualize_cpu.py: the CSV loader, the statistics       *)
(* calculator, the ASCII chart's plotting pass and axis labels, the        *)
(* insight generator and the orchestrator main().                          *)
(*                                                                         *)
(* Samples are Python floats (IEEE-754 binary64).  calculate_stats adds    *)
(* and divides them, so its model carries binary64 values with their       *)
(* rounding.  Every double the model meets is zero or lies in              *)
(* [2^-7, 2^15), hence is a multiple of 2^-60: a double v is the number    *)
(* v * 2^60 written in five limbs of 15 bits, most significant first, so   *)
(* that limb 1 is the integer part of v.  An operation computes its exact  *)
(* result in limbs and rounds it to 53 significant bits, ties to even.     *)
(***************************************************************************)
EXTENDS Integers, Sequences, FiniteSets, TLC

\* ------------------------------------------------------------------------
\* binary64 arithmetic
\* ------------------------------------------------------------------------

LimbBits == 15
Base == 2 ^ LimbBits
Precision == 53

FZero == <<0, 0, 0, 0, 0>>

\* float(k) for an int 0 <= k < 2^15 (exact).
FromNat(k) == <<k, 0, 0, 0, 0>>

\* Exact x + y.
BAdd(x, y) ==
    LET s5 == x[5] + y[5]
        s4 == x[4] + y[4] + (s5 \div Base)
        s3 == x[3] + y[3] + (s4 \div Base)
        s2 == x[2] + y[2] + (s3 \div Base)
        s1 == x[1] + y[1] + (s2 \div Base)
    IN  <<s1, s2 % Base, s3 % Base, s4 % Base, s5 % Base>>

\* Exact x - y for x >= y.
BSub(x, y) ==
    LET s5 == x[5] - y[5]
        s4 == x[4] - y[4] + (s5 \div Base)
        s3 == x[3] - y[3] + (s4 \div Base)
        s2 == x[2] - y[2] + (s3 \div Base)
        s1 == x[1] - y[1] + (s2 \div Base)
    IN  <<s1, s2 % Base, s3 % Base, s4 % Base, s5 % Base>>

\* Exact x * k for an int 0 <= k < 2^15.
BMulNat(x, k) ==
    LET p5 == x[5] * k
        p4 == x[4] * k + (p5 \div Base)
        p3 == x[3] * k + (p4 \div Base)
        p2 == x[2] * k + (p3 \div Base)
        p1 == x[1] * k + (p2 \div Base)
    IN  <<p1, p2 % Base, p3 % Base, p4 % Base, p5 % Base>>

\* floor(x / d) and whether a remainder is left, for an int 1 <= d < 2^15.
BDivNat(x, d) ==
    LET t1 == x[1]
        t2 == (t1 % d) * Base + x[2]
        t3 == (t2 % d) * Base + x[3]
        t4 == (t3 % d) * Base + x[4]
        t5 == (t4 % d) * Base + x[5]
    IN  [q |-> <<t1 \div d, t2 \div d, t3 \div d, t4 \div d, t5 \div d>>,
         inexact |-> (t5 % d) # 0]

\* Number of significant bits of a limb, and of x.
LimbLen(v) == Cardinality({k \in 0..(LimbBits - 1) : 2 ^ k <= v})

BitLen(x) ==
    IF x = FZero THEN 0
    ELSE LET i == CHOOSE j \in 1..5 : x[j] # 0 /\ \A h \in 1..(j - 1) : x[h] = 0
         IN  LimbLen(x[i]) + LimbBits * (5 - i)

\* x with its p low bits (1 <= p <= 2 * LimbBits, so they lie in limbs 4
\* and 5) rounded away to nearest, ties to even; inexact tells that x stands
\* for a number slightly above x.
RoundBits(x, p, inexact) ==
    LET low   == IF p <= LimbBits THEN x[5] % (2 ^ p)
                 ELSE (x[4] % (2 ^ (p - LimbBits))) * Base + x[5]
        half  == 2 ^ (p - 1)
        odd   == IF p < LimbBits THEN (x[5] \div (2 ^ p)) % 2
                 ELSE (x[4] \div (2 ^ (p - LimbBits))) % 2
        up    == low > half \/ (low = half /\ (inexact \/ odd = 1))
        trunc == IF p <= LimbBits
                 THEN [x EXCEPT ![5] = @ - (@ % (2 ^ p))]
                 ELSE [x EXCEPT ![5] = 0, ![4] = @ - (@ % (2 ^ (p - LimbBits)))]
        unit  == IF p < LimbBits THEN <<0, 0, 0, 0, 2 ^ p>>
                 ELSE <<0, 0, 0, 2 ^ (p - LimbBits), 0>>
    IN  IF up THEN BAdd(trunc, unit) ELSE trunc

\* The double nearest to the exact result x0.  (Here and below a value is
\* bound by  x \in {x0}  so that it is computed once.)
FRound(x0, inexact) ==
    CHOOSE r \in {IF BitLen(x) <= Precision THEN x
                  ELSE RoundBits(x, BitLen(x) - Precision, inexact) : x \in {x0}} : TRUE

FAdd(a, b) == FRound(BAdd(a, b), FALSE)

\* a - b for a >= b.
FSub(a, b) == FRound(BSub(a, b), FALSE)

\* float(k) * a
FMulNat(k, a) == FRound(BMulNat(a, k), FALSE)

\* a / float(d)
FDivNat(a, d) == CHOOSE v \in {FRound(r.q, r.inexact) : r \in {BDivNat(a, d)}} : TRUE

FLt(a, b) == \E i \in 1..5 : a[i] < b[i] /\ \A j \in 1..(i - 1) : a[j] = b[j]

FLe(a, b) == ~FLt(b, a)

\* int(a): truncation toward zero.
FTrunc(a) == a[1]

\* A difference that may be negative: [neg, mag], neg only when below zero.
SSub(a, b) == IF FLt(a, b) THEN [neg |-> TRUE, mag |-> FSub(b, a)]
              ELSE [neg |-> FALSE, mag |-> FSub(a, b)]

Pos(a) == [neg |-> FALSE, mag |-> a]

SLe(u, v) ==
    IF u.neg /\ v.neg THEN FLe(v.mag, u.mag)
    ELSE IF u.neg THEN TRUE
    ELSE IF v.neg THEN FALSE
    ELSE FLe(u.mag, v.mag)

\* int(u)
STrunc(u) == IF u.neg THEN -FTrunc(u.mag) ELSE FTrunc(u.mag)

\* float(text) for the decimal text of t/10 ("12.5" is t = 125): the double
\* nearest to t/10, which the correctly rounded quotient t / 10.0 also is.
ParseTenths(t) == FDivNat(FromNat(t), 10)

\* The literals 0.95 and 0.99 of calculate_stats.
Lit095 == FDivNat(FromNat(95), 100)
Lit099 == FDivNat(FromNat(99), 100)

\* ------------------------------------------------------------------------
\* calculate_stats
\* ------------------------------------------------------------------------

\* sorted(data): ascending; v goes after the elements that are <= v.
Insert(s, v) ==
    CHOOSE r \in {SubSeq(s, 1, p) \o <<v>> \o SubSeq(s, p + 1, Len(s)) :
                    p \in {Cardinality({j \in 1..Len(s) : FLe(s[j], v)})}} : TRUE

\* The elements data[lo..hi] inserted one after the other into s.  (The
\* range is halved only to keep the evaluation shallow; the insertions
\* happen in index order.)
RECURSIVE InsertRange(_, _, _, _)
InsertRange(s, data, lo, hi) ==
    IF lo > hi THEN s
    ELSE IF lo = hi THEN Insert(s, data[lo])
    ELSE CHOOSE r \in {InsertRange(left, data, ((lo + hi) \div 2) + 1, hi) :
                       left \in {InsertRange(s, data, lo, (lo + hi) \div 2)}} : TRUE

Sorted(data) == InsertRange(<<>>, data, 1, Len(data))

\* sum(data): the additions run left to right from the int 0.
RECURSIVE AddRange(_, _, _, _)
AddRange(acc, data, lo, hi) ==
    IF lo > hi THEN acc
    ELSE IF lo = hi THEN FAdd(acc, data[lo])
    ELSE CHOOSE r \in {AddRange(left, data, ((lo + hi) \div 2) + 1, hi) :
                       left \in {AddRange(acc, data, lo, (lo + hi) \div 2)}} : TRUE

Sum(data) == AddRange(FZero, data, 1, Len(data))

\* Mutants: the lower middle element; rounding to nearest, int(n * 0.95 + 0.5).
MedianIndexLower(n) == (n - 1) \div 2

Index95Rounded(n) == FTrunc(FAdd(FMulNat(n, Lit095), FDivNat(FromNat(1), 2)))

\* The 0-based indices n // 2, int(n * 0.95) and int(n * 0.99).
MedianIndex(n) == n \div 2

Index95(n) == FTrunc(FMulNat(n, Lit095))

Index99(n) == FTrunc(FMulNat(n, Lit099))

\* The dict of lines 31-38, {} for no data, or the IndexError that a
\* subscript beyond the list raises.
StatsOf(data, sorted_data, n, i50, i95, i99) ==
    IF i50 >= n \/ i95 >= n \/ (n > 1 /\ i99 >= n)
    THEN [kind |-> "IndexError"]
    ELSE [kind   |-> "stats",
          min    |-> sorted_data[1],
          max    |-> sorted_data[n],
          mean   |-> FDivNat(Sum(data), n),
          median |-> sorted_data[i50 + 1],
          p95    |-> sorted_data[i95 + 1],
          p99    |-> IF n > 1 THEN sorted_data[i99 + 1] ELSE sorted_data[n]]

CalculateStats(data) ==
    IF data = <<>> THEN [kind |-> "empty"]
    ELSE CHOOSE r \in {StatsOf(data, sorted_data, Len(sorted_data),
                               MedianIndex(Len(sorted_data)),
                               Index95(Len(sorted_data)),
                               Index99(Len(sorted_data))) :
                       sorted_data \in {Sorted(data)}} : TRUE

\* ------------------------------------------------------------------------
\* load_cpu_data
\*
\* A file is [exists, header, rows]: whether the path can be opened, whether
\* the header row names the column cpu_percent, and for every data row what
\* csv.DictReader holds for that column.  A cell is the decimal text of
\* tenths / 10 ("num"), a text float() rejects ("text"), or None ("none"):
\* DictReader fills the columns a short row lacks with restval = None.
\* ------------------------------------------------------------------------

NumCell(t) == [t |-> "num", tenths |-> t]
TextCell == [t |-> "text", tenths |-> 0]
NoneCell == [t |-> "none", tenths |-> 0]

MissingFile == [exists |-> FALSE, header |-> FALSE, rows |-> <<>>]

\* What float(row['cpu_percent']) does on one row.
RowOutcome(file, cell) ==
    IF ~file.header THEN "KeyError"
    ELSE IF cell.t = "none" THEN "TypeError"
    ELSE IF cell.t = "text" THEN "ValueError"
    ELSE "ok"

\* One pass of the loop of lines 16-20 over state [raised, cpu_data]:
\* KeyError and ValueError are caught (continue), any other exception
\* leaves the function.
LoadRow(file, st, cell) ==
    IF st.raised # "none" THEN st
    ELSE IF RowOutcome(file, cell) = "ok"
    THEN [st EXCEPT !.cpu_data = Append(@, ParseTenths(cell.tenths))]
    ELSE IF RowOutcome(file, cell) \in {"ValueError", "KeyError"} THEN st
    ELSE [st EXCEPT !.raised = RowOutcome(file, cell)]

RECURSIVE LoadRows(_, _)
LoadRows(file, k) ==
    IF k = 0 THEN [raised |-> "none", cpu_data |-> <<>>]
    ELSE CHOOSE r \in {LoadRow(file, st, file.rows[k]) : st \in {LoadRows(file, k - 1)}} : TRUE

\* load_cpu_data(filename): [raised, cpu_data]; cpu_data is returned when
\* raised = "none".
LoadCpuData(file) ==
    IF ~file.exists THEN [raised |-> "FileNotFoundError", cpu_data |-> <<>>]
    ELSE LoadRows(file, Len(file.rows))

\* ------------------------------------------------------------------------
\* main: the fixed table of tests (lines 168-172)
\* ------------------------------------------------------------------------

NumTests == 3

tests ==
    << [filename |-> "results/production_load/resources_20251115_200213.csv",
        label    |-> "Baseline (1000 RPS, 256MB, 8 shards)"],
       [filename |-> "results/production_load/resources_20251115_200510.csv",
        label    |-> "High Buffer (1000 RPS, 512MB, 8 shards)"],
       [filename |-> "results/production_load/resources_20251115_220423.csv",
        label    |-> "Peak Load (1500 RPS, 512MB, 16 shards)"] >>

Filenames == {tests[k].filename : k \in 1..NumTests}

\* main() has not returned a value.
NoReturn == -1

\* ------------------------------------------------------------------------
\* generate_ascii_chart(datasets, labels, width, height)
\*
\* The samples charted here are whole numbers, so value_range is a whole
\* number too and  a / value_range,  b * value_range  are the quotient and
\* product by the int FTrunc(value_range).
\* ------------------------------------------------------------------------

Width == 2
Height == 3

\* The palette of line 62: U+2588, U+2593, U+2591.
symbols == <<"full_block", "dark_shade", "light_shade">>

Symbol(dataset_idx) == symbols[(dataset_idx % Len(symbols)) + 1]

Min2(a, b) == IF a < b THEN a ELSE b

AllData(ds) == UNION {{ds[d][k] : k \in 1..Len(ds[d])} : d \in 1..Len(ds)}

GlobalMin(ds) == CHOOSE v \in AllData(ds) : \A w \in AllData(ds) : FLe(v, w)

GlobalMax(ds) == CHOOSE v \in AllData(ds) : \A w \in AllData(ds) : FLe(w, v)

\* Lines 49-52.
ValueRange(ds) ==
    IF FSub(GlobalMax(ds), GlobalMin(ds)) = FZero THEN FromNat(1)
    ELSE FSub(GlobalMax(ds), GlobalMin(ds))

\* Line 78.
Step(d) == IF Len(d) > Width THEN FDivNat(FromNat(Len(d)), Width) ELSE FromNat(1)

\* Line 81: the 0-based index of the sample drawn in column x.
SampleIndex(d, x) ==
    IF FLt(FromNat(1), Step(d)) THEN FTrunc(FMulNat(x, Step(d))) ELSE x

\* Mutant: the row without the inversion, int(normalized_value * (height - 1)).
RowNotInverted(v, global_min, value_range) ==
    FTrunc(FMulNat(Height - 1, FDivNat(FSub(v, global_min), FTrunc(value_range))))

\* Lines 85-86: the row of a sample.
Row(v, global_min, value_range) ==
    STrunc(SSub(FromNat(Height - 1),
                FMulNat(Height - 1, FDivNat(FSub(v, global_min), FTrunc(value_range)))))

\* Mutant: the glyph written whatever the cell holds.
PlotCellAlways(grid, y, x, symbol) ==
    IF 0 <= y /\ y < Height THEN [grid EXCEPT ![y][x] = symbol] ELSE grid

\* Lines 88-90.
PlotCell(grid, y, x, symbol) ==
    IF 0 <= y /\ y < Height
    THEN IF grid[y][x] = " " THEN [grid EXCEPT ![y][x] = symbol] ELSE grid
    ELSE grid

\* Lines 94-99: the value labelling row r.
YVal(r, global_min, global_max, value_range) ==
    IF r = 0 THEN Pos(global_max)
    ELSE IF r = Height - 1 THEN Pos(global_min)
    ELSE SSub(global_max, FMulNat(FTrunc(value_range), FDivNat(FromNat(r), Height - 1)))

BlankGrid == [y \in 0..(Height - 1) |-> [x \in 0..(Width - 1) |-> " "]]

MaxOf(S) == CHOOSE m \in S : \A k \in S : k <= m

\* What the function returns once the grid is plotted: the legend, the
\* Y-axis range, the labelled rows and the footer's sample count.
ChartText(ds, lbls, grid) ==
    [legend  |-> [k \in 1..Len(lbls) |-> <<Symbol(k - 1), lbls[k]>>],
     y_axis  |-> <<GlobalMin(ds), GlobalMax(ds)>>,
     rows    |-> [r \in 0..(Height - 1) |->
                    [y_val |-> YVal(r, GlobalMin(ds), GlobalMax(ds), ValueRange(ds)),
                     cells |-> grid[r]]],
     max_len |-> MaxOf({Len(ds[d]) : d \in 1..Len(ds)})]

\* ------------------------------------------------------------------------
\* generate_comparison_insights(stats_list, labels)
\* ------------------------------------------------------------------------

\* The assumed capacity of line 158.
Capacity == 400

\* Mutant: the pair goes before the pairs of equal key.
InsertByKeyBefore(s, pair, key) ==
    CHOOSE r \in {SubSeq(s, 1, p) \o <<pair>> \o SubSeq(s, p + 1, Len(s)) :
                    p \in {Cardinality({j \in 1..Len(s) : FLt(s[j][2][key], pair[2][key])})}} : TRUE

\* sorted(..., key=...) is stable: the pair goes after the pairs of a key
\* that is not greater.
InsertByKey(s, pair, key) ==
    CHOOSE r \in {SubSeq(s, 1, p) \o <<pair>> \o SubSeq(s, p + 1, Len(s)) :
                    p \in {Cardinality({j \in 1..Len(s) : FLe(s[j][2][key], pair[2][key])})}} : TRUE

RECURSIVE SortedByKey(_, _, _)
SortedByKey(pairs, k, key) ==
    IF k = 0 THEN <<>>
    ELSE CHOOSE r \in {InsertByKey(s, pairs[k], key) : s \in {SortedByKey(pairs, k - 1, key)}} : TRUE

\* zip(labels, stats_list)
Zip(lbls, stats) == [k \in 1..Min2(Len(lbls), Len(stats)) |-> <<lbls[k], stats[k]>>]

InsightsOf(by_mean, by_peak, lbls, stats) ==
    [lowest_avg   |-> <<by_mean[1][1], by_mean[1][2].mean>>,
     highest_avg  |-> <<by_mean[Len(by_mean)][1], by_mean[Len(by_mean)][2].mean>>,
     lowest_peak  |-> <<by_peak[1][1], by_peak[1][2].max>>,
     highest_peak |-> <<by_peak[Len(by_peak)][1], by_peak[Len(by_peak)][2].max>>,
     headroom     |-> [k \in 1..Min2(Len(lbls), Len(stats)) |->
                         <<lbls[k], SSub(FromNat(Capacity), stats[k].mean)>>]]

GenerateComparisonInsights(stats, lbls) ==
    CHOOSE r \in {InsightsOf(by_mean, by_peak, lbls, stats) :
                    by_mean \in {SortedByKey(Zip(lbls, stats), Len(Zip(lbls, stats)), "mean")},
                    by_peak \in {SortedByKey(Zip(lbls, stats), Len(Zip(lbls, stats)), "max")}} : TRUE

\* ------------------------------------------------------------------------
\* State
\* ------------------------------------------------------------------------

VARIABLES
    data,        \* calculate_stats: the argument
    result,      \* calculate_stats: pending, then what the call gave
    file,        \* load_cpu_data: the file behind the argument
    loaded,      \* load_cpu_data: pending, then what the call gave
    fs,          \* main: the file behind every name of tests
    pc,          \* main: "loop", "check", "table", "insights", "done", "raised"
    i,           \* main: the entry of tests the loop is at (1-based)
    attempted,   \* main: the filenames load_cpu_data was called with, in order
    datasets,    \* main and generate_ascii_chart: the sample sequences
    labels,      \* main and the renderers: their labels
    stats_list,  \* main and the renderers: their statistics
    out,         \* main: what was printed, one tag per notice or block
    ret,         \* main: the value returned, NoReturn before
    grid,        \* generate_ascii_chart: the grid, grid[row][column]
    dataset_idx, \* generate_ascii_chart: the dataset being plotted (0-based)
    x,           \* generate_ascii_chart: the column being plotted
    cpc,         \* generate_ascii_chart: "start", "plot", "done"
    chart,       \* generate_ascii_chart: what it returned
    insights     \* generate_comparison_insights: pending, then what it returned

statsVars == <<data, result>>
loadVars == <<file, loaded>>
mainVars == <<fs, pc, i, attempted, out, ret>>
listVars == <<datasets, labels, stats_list>>
chartVars == <<grid, dataset_idx, x, cpc, chart>>

vars == <<statsVars, loadVars, mainVars, listVars, chartVars, insights>>

\* The parts of the state a specification does not use stay as they are here.
StatsIdle == data = <<>> /\ result = [kind |-> "idle"]
LoadIdle == file = MissingFile /\ loaded = [raised |-> "idle", cpu_data |-> <<>>]
MainIdle ==
    /\ fs = [f \in Filenames |-> MissingFile]
    /\ pc = "idle" /\ i = 0 /\ attempted = <<>> /\ out = <<>> /\ ret = NoReturn
ListIdle == datasets = <<>> /\ labels = <<>> /\ stats_list = <<>>
ChartIdle ==
    /\ grid = BlankGrid /\ dataset_idx = 0 /\ x = 0 /\ cpc = "idle"
    /\ chart = [kind |-> "idle"]
InsightsIdle == insights = [kind |-> "idle"]
RenderIdle == ChartIdle /\ InsightsIdle
renderVars == <<chartVars, insights>>

\* ------------------------------------------------------------------------
\* Inputs of calculate_stats: every sequence of at most MaxLen samples read
\* from the texts SampleTenths / 10, and two orderings of the n distinct
\* samples 0.0, 0.1, ... for every n up to MaxRamp.
\* ------------------------------------------------------------------------

MaxLen == 3
MaxRamp == 101
SampleTenths == {0, 1, 7, 125, 300}

Samples == {ParseTenths(t) : t \in SampleTenths}

ShortData == UNION {[1..n -> Samples] : n \in 0..MaxLen}

Descending(n) == [k \in 1..n |-> ParseTenths(n - k)]
Rotated(n) == [k \in 1..n |-> ParseTenths((k + (n \div 2)) % n)]

RampData == {Descending(n) : n \in 1..MaxRamp} \cup {Rotated(n) : n \in 1..MaxRamp}

StatsInit ==
    /\ data \in ShortData \cup RampData
    /\ result = [kind |-> "pending"]
    /\ LoadIdle /\ MainIdle /\ ListIdle /\ RenderIdle

StatsCall ==
    /\ result.kind = "pending"
    /\ result' = CalculateStats(data)
    /\ UNCHANGED <<data, loadVars, mainVars, listVars, renderVars>>

StatsNext == StatsCall

SpecStats == StatsInit /\ [][StatsNext]_vars

\* ------------------------------------------------------------------------
\* load_cpu_data on every file of at most MaxRows data rows
\* ------------------------------------------------------------------------

MaxRows == 3
CellTenths == {125, 300}

Cells == {NumCell(t) : t \in CellTenths} \cup {TextCell, NoneCell}

RowsUpTo(n) == UNION {[1..k -> Cells] : k \in 0..n}

\* A header without the column makes every row raise KeyError, whatever the
\* row holds.
FilesUpTo(n) ==
    {MissingFile} \cup
    {[exists |-> TRUE, header |-> h, rows |-> r] : h \in BOOLEAN, r \in RowsUpTo(n)}

LoadInit ==
    /\ file \in FilesUpTo(MaxRows)
    /\ loaded = [raised |-> "pending", cpu_data |-> <<>>]
    /\ StatsIdle /\ MainIdle /\ ListIdle /\ RenderIdle

LoadCall ==
    /\ loaded.raised = "pending"
    /\ loaded' = LoadCpuData(file)
    /\ UNCHANGED <<file, statsVars, mainVars, listVars, renderVars>>

LoadNext == LoadCall

SpecLoad == LoadInit /\ [][LoadNext]_vars

\* ------------------------------------------------------------------------
\* main
\* ------------------------------------------------------------------------

MaxMainRows == 2

MainInit ==
    /\ fs \in [Filenames -> FilesUpTo(MaxMainRows)]
    /\ pc = "loop" /\ i = 1 /\ attempted = <<>> /\ out = <<>> /\ ret = NoReturn
    /\ ListIdle /\ StatsIdle /\ LoadIdle /\ RenderIdle

\* One pass of the loop of lines 180-192.  Only FileNotFoundError is
\* caught; another exception leaves main.
LoadStep(entry, r) ==
    /\ attempted' = Append(attempted, entry.filename)
    /\ IF r.raised = "FileNotFoundError"
       THEN /\ out' = Append(out, <<"file_not_found", entry.filename>>)
            /\ pc' = IF i = NumTests THEN "check" ELSE "loop"
            /\ i' = i + 1
            /\ UNCHANGED listVars
       ELSE IF r.raised # "none"
       THEN /\ pc' = "raised"
            /\ UNCHANGED <<i, out, listVars>>
       ELSE IF r.cpu_data = <<>>
       THEN /\ out' = Append(out, <<"no_data", entry.label>>)
            /\ pc' = IF i = NumTests THEN "check" ELSE "loop"
            /\ i' = i + 1
            /\ UNCHANGED listVars
       ELSE IF CalculateStats(r.cpu_data).kind = "IndexError"
       THEN /\ datasets' = Append(datasets, r.cpu_data)
            /\ labels' = Append(labels, entry.label)
            /\ pc' = "raised"
            /\ UNCHANGED <<i, out, stats_list>>
       ELSE /\ datasets' = Append(datasets, r.cpu_data)
            /\ labels' = Append(labels, entry.label)
            /\ stats_list' = Append(stats_list, CalculateStats(r.cpu_data))
            /\ out' = Append(out, <<"loaded", entry.label>>)
            /\ pc' = IF i = NumTests THEN "check" ELSE "loop"
            /\ i' = i + 1

MainLoad ==
    /\ pc = "loop"
    /\ \E r \in {LoadCpuData(fs[tests[i].filename])} : LoadStep(tests[i], r)
    /\ UNCHANGED <<fs, ret, statsVars, loadVars, renderVars>>

\* Lines 194-196.
MainNoData ==
    /\ pc = "check" /\ datasets = <<>>
    /\ out' = Append(out, <<"error", "No data loaded!">>)
    /\ ret' = 1
    /\ pc' = "done"
    /\ UNCHANGED <<fs, i, attempted, listVars, statsVars, loadVars, renderVars>>

\* Lines 198-201: the count line and the chart.
MainChart ==
    /\ pc = "check" /\ datasets # <<>>
    /\ out' = out \o << <<"variants_loaded", Len(datasets)>>, <<"chart", labels>> >>
    /\ pc' = "table"
    /\ UNCHANGED <<fs, i, attempted, ret, listVars, statsVars, loadVars, renderVars>>

\* Line 204.
MainTable ==
    /\ pc = "table"
    /\ out' = Append(out, <<"table", labels>>)
    /\ pc' = "insights"
    /\ UNCHANGED <<fs, i, attempted, ret, listVars, statsVars, loadVars, renderVars>>

\* Lines 207-209.
MainInsights ==
    /\ pc = "insights"
    /\ out' = Append(out, <<"insights", labels>>)
    /\ ret' = 0
    /\ pc' = "done"
    /\ UNCHANGED <<fs, i, attempted, listVars, statsVars, loadVars, renderVars>>

MainNext == MainLoad \/ MainNoData \/ MainChart \/ MainTable \/ MainInsights

SpecMain == MainInit /\ [][MainNext]_vars

\* ------------------------------------------------------------------------
\* generate_ascii_chart and generate_comparison_insights on what main can
\* pass: at most NumTests non-empty datasets, here of whole-number samples
\* 0..MaxLevel and at most MaxSamples samples in all.
\* ------------------------------------------------------------------------

MaxLevel == 2
MaxSamples == 4

Levels == {FromNat(v) : v \in 0..MaxLevel}

SeqsOfLen(n) == [1..n -> Levels]

DatasetLists ==
    {<<a>> : a \in UNION {SeqsOfLen(n) : n \in 1..MaxSamples}}
    \cup UNION {{<<a, b>> : a \in SeqsOfLen(n[1]), b \in SeqsOfLen(n[2])} :
                n \in {m \in (1..MaxSamples) \X (1..MaxSamples) : m[1] + m[2] <= MaxSamples}}
    \cup UNION {{<<a, b, c>> : a \in SeqsOfLen(n[1]), b \in SeqsOfLen(n[2]), c \in SeqsOfLen(n[3])} :
                n \in {m \in (1..MaxSamples) \X (1..MaxSamples) \X (1..MaxSamples) :
                         m[1] + m[2] + m[3] <= MaxSamples}}

LabelsFor(ds) == [k \in 1..Len(ds) |-> tests[k].label]

ChartInit ==
    /\ datasets \in DatasetLists \cup {<<>>}
    /\ labels = LabelsFor(datasets)
    /\ stats_list = <<>>
    /\ grid = BlankGrid /\ dataset_idx = 0 /\ x = 0 /\ cpc = "start"
    /\ chart = [kind |-> "pending"]
    /\ InsightsIdle /\ StatsIdle /\ LoadIdle /\ MainIdle

\* Lines 42-43.
ChartNoData ==
    /\ cpc = "start" /\ datasets = <<>>
    /\ chart' = [kind |-> "No data"]
    /\ cpc' = "done"
    /\ UNCHANGED <<grid, dataset_idx, x, listVars, insights, statsVars, loadVars, mainVars>>

\* Lines 45-73: the range, the header lines and the blank grid.
ChartBegin ==
    /\ cpc = "start" /\ datasets # <<>>
    /\ grid' = BlankGrid
    /\ dataset_idx' = 0 /\ x' = 0
    /\ cpc' = "plot"
    /\ UNCHANGED <<chart, listVars, insights, statsVars, loadVars, mainVars>>

\* One pass of the inner loop of lines 80-90.
PlotSample ==
    /\ cpc = "plot" /\ dataset_idx < Len(datasets)
    /\ x < Min2(Width, Len(datasets[dataset_idx + 1]))
    /\ LET d   == datasets[dataset_idx + 1]
           idx == SampleIndex(d, x)
       IN  IF idx >= Len(d)
           THEN /\ dataset_idx' = dataset_idx + 1 /\ x' = 0
                /\ UNCHANGED grid
           ELSE /\ grid' = PlotCell(grid, Row(d[idx + 1], GlobalMin(datasets), ValueRange(datasets)),
                                    x, Symbol(dataset_idx))
                /\ x' = x + 1
                /\ UNCHANGED dataset_idx
    /\ UNCHANGED <<cpc, chart, listVars, insights, statsVars, loadVars, mainVars>>

\* The inner loop is exhausted: on to the next dataset.
PlotNextDataset ==
    /\ cpc = "plot" /\ dataset_idx < Len(datasets)
    /\ x = Min2(Width, Len(datasets[dataset_idx + 1]))
    /\ dataset_idx' = dataset_idx + 1 /\ x' = 0
    /\ UNCHANGED <<grid, cpc, chart, listVars, insights, statsVars, loadVars, mainVars>>

\* Lines 92-107: the labelled rows and the footer.
ChartRows ==
    /\ cpc = "plot" /\ dataset_idx = Len(datasets)
    /\ chart' = [kind |-> "chart", text |-> ChartText(datasets, labels, grid)]
    /\ cpc' = "done"
    /\ UNCHANGED <<grid, dataset_idx, x, listVars, insights, statsVars, loadVars, mainVars>>

ChartNext == ChartNoData \/ ChartBegin \/ PlotSample \/ PlotNextDataset \/ ChartRows

SpecChart == ChartInit /\ [][ChartNext]_vars

InsightsInit ==
    /\ datasets \in DatasetLists
    /\ labels = LabelsFor(datasets)
    /\ stats_list = [k \in 1..Len(datasets) |-> CalculateStats(datasets[k])]
    /\ insights = [kind |-> "pending"]
    /\ ChartIdle /\ StatsIdle /\ LoadIdle /\ MainIdle

InsightsCall ==
    /\ insights.kind = "pending"
    /\ insights' = [kind |-> "insights", report |-> GenerateComparisonInsights(stats_list, labels)]
    /\ UNCHANGED <<listVars, chartVars, statsVars, loadVars, mainVars>>

InsightsNext == InsightsCall

SpecInsights == InsightsInit /\ [][InsightsNext]_vars

\* ========================================================================
\* Claims
\* ========================================================================

StatsDone == result.kind \notin {"pending", "idle"}

\* C3: for every non-empty sample sequence the record of calculate_stats has
\* min <= median <= max, min <= mean <= max, min <= p95 <= max and
\* min <= p99 <= max, and when all samples equal v all six statistics are v.
C3_StatsWithinRange ==
    (StatsDone /\ data # <<>>) =>
        /\ result.kind = "stats"
        /\ \A k \in {"median", "mean", "p95", "p99"} :
              FLe(result.min, result[k]) /\ FLe(result[k], result.max)
        /\ (\A j \in 1..Len(data) : data[j] = data[1]) =>
              \A k \in {"min", "max", "mean", "median", "p95", "p99"} :
                 result[k] = data[1]

\* The element at 0-based index k of the ascending order of data, told by
\* counting: at most k elements are below it and more than k are not above.
OrderStat(d, k) ==
    d[CHOOSE j \in 1..Len(d) :
        /\ Cardinality({h \in 1..Len(d) : FLt(d[h], d[j])}) <= k
        /\ Cardinality({h \in 1..Len(d) : FLe(d[h], d[j])}) > k]

\* C4: for a non-empty sequence of length n, min and max are the first and
\* last element of the ascending order, median the element at index
\* floor(n/2), p95 the one at floor(n*0.95), p99 the one at floor(n*0.99)
\* when n > 1 and max when n = 1; an empty sequence gives an empty record.
C4_OrderStatistics ==
    StatsDone =>
        IF data = <<>> THEN result.kind = "empty"
        ELSE LET n == Len(data) IN
             /\ result.kind = "stats"
             /\ result.min = OrderStat(data, 0)
             /\ result.max = OrderStat(data, n - 1)
             /\ result.median = OrderStat(data, n \div 2)
             /\ result.p95 = OrderStat(data, (n * 95) \div 100)
             /\ result.p99 = IF n > 1 THEN OrderStat(data, (n * 99) \div 100)
                             ELSE result.max

\* A sequence long enough for median, p95, p99 and max to be four different
\* elements has been processed.
C4_Witness ==
    /\ StatsDone /\ Len(data) > 100
    /\ FLt(result.median, result.p95)
    /\ FLt(result.p95, result.p99)
    /\ FLt(result.p99, result.max)

\* C10: for every n >= 1 the indices floor(n/2), floor(n*0.95) and
\* floor(n*0.99) lie in 0..n-1, so calculate_stats raises no IndexError and
\* returns all six statistics.
C10_IndicesInRange ==
    (StatsDone /\ data # <<>>) =>
        LET n == Len(data) IN
        /\ MedianIndex(n) \in 0..(n - 1)
        /\ Index95(n) \in 0..(n - 1)
        /\ Index99(n) \in 0..(n - 1)
        /\ result.kind = "stats"
        /\ DOMAIN result = {"kind", "min", "max", "mean", "median", "p95", "p99"}

\* calculate_stats has returned for the shortest and for a long sequence.
C10_Witness == StatsDone /\ Len(data) >= 100 /\ result.kind = "stats"

LoadDone == loaded.raised \notin {"pending", "idle"}

ParsedRows(f) ==
    LET kept == SelectSeq(f.rows, LAMBDA c : f.header /\ c.t = "num")
    IN  [k \in 1..Len(kept) |-> ParseTenths(kept[k].tenths)]

\* C5: on an existing file load_cpu_data returns exactly the rows whose
\* cpu_percent is present and parses as a number, in row order; a row with
\* a missing or unparsable cpu_percent adds nothing and does not stop the
\* rows after it.
C5_LoadKeepsParsableRows ==
    (LoadDone /\ file.exists) =>
        /\ loaded.raised = "none"
        /\ loaded.cpu_data = ParsedRows(file)

MainEnded == pc \in {"done", "raised"}

SomeFileHasSample == \E f \in Filenames : fs[f].exists /\ ParsedRows(fs[f]) # <<>>

Rendered == {out[k][1] : k \in 1..Len(out)} \cap {"chart", "table", "insights"}

\* C1: whatever the three files are (missing, without a valid sample, with
\* one), main returns 0 if and only if some file gave a valid sample and
\* returns 1 otherwise, and when it returns 1 no renderer has run.
C1_ReturnCode ==
    MainEnded =>
        /\ ret = IF SomeFileHasSample THEN 0 ELSE 1
        /\ ret = 1 => Rendered = {}

\* The entries of tests, in list order, whose file exists and has a sample.
RECURSIVE Retained(_)
Retained(k) ==
    IF k = 0 THEN <<>>
    ELSE IF fs[tests[k].filename].exists /\ ParsedRows(fs[tests[k].filename]) # <<>>
    THEN Append(Retained(k - 1), k)
    ELSE Retained(k - 1)

\* C2: every entry of the list is attempted exactly once, in list order,
\* whatever earlier entries did, and after the loop the retained datasets
\* are exactly the entries whose file exists and has a valid sample, in
\* list order, datasets, labels and stats_list being parallel.
C2_EveryEntryAttempted ==
    pc # "loop" =>
        /\ attempted = [k \in 1..NumTests |-> tests[k].filename]
        /\ LET kept == Retained(NumTests) IN
           /\ Len(datasets) = Len(kept)
           /\ Len(labels) = Len(kept)
           /\ Len(stats_list) = Len(kept)
           /\ \A k \in 1..Len(kept) :
                 /\ labels[k] = tests[kept[k]].label
                 /\ datasets[k] = ParsedRows(fs[tests[kept[k]].filename])
                 /\ stats_list[k] = CalculateStats(datasets[k])

\* The plotting pass of generate_ascii_chart is over.
PlotDone == datasets # <<>> /\ (cpc = "done" \/ (cpc = "plot" /\ dataset_idx = Len(datasets)))

\* The samples the pass draws, as <<d, c, y>>: dataset d (1-based) draws
\* the sample of column c at row y.
PlottedWith(global_min, value_range) ==
    UNION {{<<d, c, Row(datasets[d][SampleIndex(datasets[d], c) + 1], global_min, value_range)>> :
               c \in {c \in 0..(Min2(Width, Len(datasets[d])) - 1) :
                         SampleIndex(datasets[d], c) < Len(datasets[d])}} :
           d \in 1..Len(datasets)}

Plotted ==
    UNION {PlottedWith(lo, range) :
              lo \in {GlobalMin(datasets)}, range \in {ValueRange(datasets)}}

Mappers(P, y, c) == {t[1] : t \in {t \in P : t[2] = c /\ t[3] = y}}

MinOf(S) == CHOOSE m \in S : \A k \in S : m <= k

FirstWriterGrid ==
    PlotDone =>
        \A P \in {Plotted} :
            \A y \in 0..(Height - 1), c \in 0..(Width - 1) :
                grid[y][c] = IF Mappers(P, y, c) = {} THEN " "
                             ELSE Symbol(MinOf(Mappers(P, y, c)) - 1)

NoOverwrite ==
    \A y \in 0..(Height - 1), c \in 0..(Width - 1) :
        grid[y][c] # " " => grid'[y][c] = grid[y][c]

\* C6: during the plotting pass a cell that has become non-blank is never
\* changed again, and at the end of the pass every cell some dataset maps a
\* sample to holds the glyph of the lowest-index such dataset, every other
\* cell being blank.
C6_FirstWriterWins == []FirstWriterGrid /\ [][NoOverwrite]_vars

\* Two datasets of different glyphs map a sample to the same cell.
C6_Witness ==
    /\ PlotDone /\ cpc = "done" /\ Len(datasets) >= 2
    /\ \E y \in 0..(Height - 1), c \in 0..(Width - 1) :
          /\ {1, 2} \subseteq Mappers(Plotted, y, c)
          /\ grid[y][c] = Symbol(0)

AllSamplesEqual == \A v \in AllData(datasets), w \in AllData(datasets) : v = w

\* C8: when every sample of every dataset has the same value the range is
\* taken to be 1 and every plotted sample lands in the bottom row: no other
\* row receives a glyph.
C8_ZeroRangeBottomRow ==
    (datasets # <<>> /\ cpc \in {"plot", "done"} /\ AllSamplesEqual) =>
        /\ ValueRange(datasets) = FromNat(1)
        /\ \A y \in 0..(Height - 2), c \in 0..(Width - 1) : grid[y][c] = " "
        /\ PlotDone =>
              \A d \in 1..Len(datasets) :
                 \A c \in 0..(Min2(Width, Len(datasets[d])) - 1) :
                    grid[Height - 1][c] # " "

\* A chart of equal samples has been plotted.
C8_Witness ==
    /\ cpc = "done" /\ datasets # <<>> /\ AllSamplesEqual
    /\ grid[Height - 1][0] # " "

\* C9: for every input the label of the top row is the global maximum, that
\* of the bottom row the global minimum and that of a row between them the
\* linear interpolation, so labels do not increase from top to bottom and
\* lie between the global minimum and the global maximum.
C9_AxisLabels ==
    (cpc = "done" /\ datasets # <<>>) =>
        LET rows == chart.text.rows
            lo   == GlobalMin(datasets)
            hi   == GlobalMax(datasets)
        IN  /\ rows[0].y_val = Pos(hi)
            /\ rows[Height - 1].y_val = Pos(lo)
            /\ \A r \in 1..(Height - 2) :
                  rows[r].y_val =
                     SSub(hi, FMulNat(FTrunc(FSub(hi, lo)), FDivNat(FromNat(r), Height - 1)))
            /\ \A r \in 0..(Height - 2) : SLe(rows[r + 1].y_val, rows[r].y_val)
            /\ \A r \in 0..(Height - 1) :
                  SLe(Pos(lo), rows[r].y_val) /\ SLe(rows[r].y_val, Pos(hi))

\* The first dataset whose key is lowest, the last whose key is highest.
FirstLowest(key) ==
    CHOOSE j \in 1..Len(stats_list) :
        /\ \A k \in 1..Len(stats_list) : FLe(stats_list[j][key], stats_list[k][key])
        /\ \A k \in 1..(j - 1) : FLt(stats_list[j][key], stats_list[k][key])

LastHighest(key) ==
    CHOOSE j \in 1..Len(stats_list) :
        /\ \A k \in 1..Len(stats_list) : FLe(stats_list[k][key], stats_list[j][key])
        /\ \A k \in (j + 1)..Len(stats_list) : FLt(stats_list[k][key], stats_list[j][key])

\* C7: the dataset reported as lowest-average has a mean <= every mean and
\* the one reported as highest-average a mean >= every mean, likewise for
\* the peaks with max; the sort being stable and ascending, equal values
\* keep their input order: the lowest is the first of the lowest in the
\* input, the highest the last of the highest.
C7_Extremes ==
    insights.kind = "insights" =>
        /\ insights.report.lowest_avg =
              <<labels[FirstLowest("mean")], stats_list[FirstLowest("mean")].mean>>
        /\ insights.report.highest_avg =
              <<labels[LastHighest("mean")], stats_list[LastHighest("mean")].mean>>
        /\ insights.report.lowest_peak =
              <<labels[FirstLowest("max")], stats_list[FirstLowest("max")].max>>
        /\ insights.report.highest_peak =
              <<labels[LastHighest("max")], stats_list[LastHighest("max")].max>>

\* Two datasets share the lowest mean and another mean is higher.
C7_Witness ==
    /\ insights.kind = "insights"
    /\ \E a \in 1..Len(stats_list), b \in 1..Len(stats_list) :
          /\ a < b
          /\ stats_list[a].mean = stats_list[b].mean
          /\ \A k \in 1..Len(stats_list) : FLe(stats_list[a].mean, stats_list[k].mean)
          /\ \E k \in 1..Len(stats_list) : FLt(stats_list[a].mean, stats_list[k].mean)
          /\ insights.report.lowest_avg[1] = labels[a]
====
